---- MODULE Spec2Model ----
(***************************************************************************)
(* Model of the Firestore-backed study-group directory (src/src/groups.js) *)
(* createGroup / joinGroup / leaveGroup are async handlers: every `await`  *)
(* of a store request is a point where other clients' requests interleave. *)
(* A "client" is one in-flight handler invocation slot (a browser tab of a *)
(* signed-in user); two clients may be signed in as the same user.         *)
(***************************************************************************)
EXTENDS Integers, Sequences, FiniteSets, TLC

\* ---- bounds of the model ----
NumClients == 2          \* handler invocation slots that run concurrently
MaxGroups == 2           \* document ids: 1 is the pre-existing group, 2.. are created
MaxCalls == 2
MaxSubs == 2
MaxSteps == 5
MaxDays == 2
MaxLocalGroups == 3            \* handler invocations in one run, over all clients

\* ---- program constants ----
MaxSize == 10            \* groups.js:28  maxSize: 10
MinNameLen == 2          \* groups.js:17
MaxNameLen == 100        \* groups.js:17

Clients == 1..NumClients
NoUser == 0              \* firebase.auth().currentUser === null
ActiveUsers == 1..NumClients   \* users that can be signed in on a client
\* users that are members of the pre-existing group and are not signed in here
Fillers == (NumClients + 1)..(NumClients + MaxSize)
GroupIds == 1..MaxGroups
Pair == {1, 2}           \* the two clients of the two-caller scenarios

\* names typed into the prompt, as character sequences ("" is cancel / empty)
LongName == [i \in 1..(MaxNameLen + 1) |-> "x"]
PaddedName == <<" ", "A", " ">>
NameInputs == {<<>>, <<"A">>, <<"A", "b">>, PaddedName, LongName}

\* a document of the groups collection; exists = FALSE is "no such document"
NoDoc == [exists |-> FALSE, name |-> <<>>, createdBy |-> NoUser, createdAt |-> 0,
          members |-> <<>>, maxSize |-> 0]

\* faulty variant of NewGroupDoc: the creator is not put into members
NewGroupDocNoCreator(name, uid, ts) ==
    [exists |-> TRUE, name |-> name, createdBy |-> uid, createdAt |-> ts,
     members |-> <<>>, maxSize |-> MaxSize]

\* the document createGroup passes to add(); createdAt is the server's timestamp
NewGroupDoc(name, uid, ts) ==
    [exists |-> TRUE, name |-> name, createdBy |-> uid, createdAt |-> ts,
     members |-> <<uid>>, maxSize |-> MaxSize]

\* Array.prototype.includes on the members array
Includes(members, uid) == \E i \in 1..Len(members) : members[i] = uid

\* faulty variant of ArrayUnion: a plain push that does not look for the element
ArrayUnionPush(members, uid) == Append(members, uid)

\* FieldValue.arrayUnion(uid): append unless already present
ArrayUnion(members, uid) ==
    IF Includes(members, uid) THEN members ELSE Append(members, uid)

\* faulty variant of ArrayRemove: the last element is moved into the freed place
ArrayRemoveSwap(members, uid) ==
    IF ~Includes(members, uid) THEN members
    ELSE LET n == Len(members)
             i == CHOOSE k \in 1..n : members[k] = uid
         IN [j \in 1..(n - 1) |-> IF j = i THEN members[n] ELSE members[j]]

\* FieldValue.arrayRemove(uid): remove every occurrence, keep the order
ArrayRemove(members, uid) == SelectSeq(members, LAMBDA m : m # uid)

\* faulty variant of JoinCheck: capacity is tested before membership
JoinCheckCapacityFirst(doc, uid) ==
    IF ~doc.exists THEN "not_found"
    ELSE IF Len(doc.members) >= doc.maxSize THEN "group_full"
    ELSE IF Includes(doc.members, uid) THEN "already_member"
    ELSE "ok"

\* faulty variant of JoinCheck: the capacity test lets a full group through
JoinCheckOffByOne(doc, uid) ==
    IF ~doc.exists THEN "not_found"
    ELSE IF Includes(doc.members, uid) THEN "already_member"
    ELSE IF Len(doc.members) > doc.maxSize THEN "group_full"
    ELSE "ok"

\* faulty variant of JoinCheck: the membership pre-check is missing
JoinCheckNoMembership(doc, uid) ==
    IF ~doc.exists THEN "not_found"
    ELSE IF Len(doc.members) >= doc.maxSize THEN "group_full"
    ELSE "ok"

\* the pre-checks of joinGroup on the snapshot it read, in the code's order
JoinCheck(doc, uid) ==
    IF ~doc.exists THEN "not_found"
    ELSE IF Includes(doc.members, uid) THEN "already_member"
    ELSE IF Len(doc.members) >= doc.maxSize THEN "group_full"
    ELSE "ok"

\* err.message of a store request the backend rejects
ErrMessages == {"unavailable", "permission_denied"}

\* the alert of a handler's catch block: 'Error ...: ' + err.message
ErrorAlert(m) ==
    CASE m = "unavailable" -> "error_unavailable"
      [] m = "permission_denied" -> "error_permission_denied"
      [] m = "no_document" -> "error_no_document"

\* the name validation of createGroup
NameCheck(name) ==
    IF Len(name) = 0 THEN "cancelled"
    ELSE IF Len(name) < MinNameLen \/ Len(name) > MaxNameLen THEN "validation_error"
    ELSE "ok"

VARIABLES
    groups,        \* the store: GroupIds -> document
    nextId,        \* next fresh document id handed out by add()
    currentUser,   \* client -> signed-in uid or NoUser
    pc,            \* client -> position of its handler (which await it is at)
    op,            \* client -> handler of the current / last call
    gid,           \* client -> groupId argument of the current / last call
    doc,           \* client -> snapshot read by the handler's first get()
    newName,       \* client -> name accepted by createGroup, pending add()
    result,        \* client -> alert shown by the last finished call ("none" while running)
    calls,         \* handler invocations started so far in this run
    view,          \* client -> last snapshot delivered to its onSnapshot listener
    page,          \* client -> its groups page: load stage, live listeners, auth state
    members0,      \* history: members of group 1 at the start of the run
    prevJoined,    \* history: client -> group its previous call joined, else 0
    rejoined,      \* history: group -> a join committed while members was empty
    watch,         \* the stopwatch page's script state: timer and loaded figures
    storage,       \* localStorage of the browser profile
    clock,         \* the browser's time: milliseconds, calendar day, locale
    tally,         \* history: day -> sessions recorded on it since the last clearAll
    login          \* the login page: sessionStorage.currentUser, location, alert

vars == <<groups, nextId, currentUser, pc, op, gid, doc, newName, result, calls,
          view, page, members0, prevJoined, rejoined, watch, storage, clock, tally,
          login>>

\* the state of the groups page
groupsVars == <<groups, nextId, currentUser, pc, op, gid, doc, newName, result,
                calls, view, page, members0, prevJoined, rejoined>>

Uid(c) == currentUser[c]

\* the first k filler users, in id order
Fill(k) == [i \in 1..k |-> NumClients + i]


\* ---- initial states ----
\* Member lists the pre-existing group can have at page load: each is what
\* createGroup followed by joins (and leaves) produces.
SeedMembers ==
    {Fill(k) : k \in {1, MaxSize - 2, MaxSize - 1, MaxSize}}
    \cup {<<u>> : u \in ActiveUsers}
    \cup {Fill(k) \o <<u>> : k \in {1, MaxSize - 2, MaxSize - 1}, u \in ActiveUsers}
    \cup {<<u>> \o Fill(2) : u \in ActiveUsers}

SeedDoc(ms) ==
    [exists |-> TRUE, name |-> <<"A", "b">>, createdBy |-> ms[1], createdAt |-> 1,
     members |-> ms, maxSize |-> MaxSize]

NoView == [delivered |-> FALSE, docs |-> [g \in GroupIds |-> NoDoc]]

\* the groups page of a client once loaded: with a signed-in user showGroups has
\* subscribed; with none the page waits for the auth state, nothing subscribed
LoadedPage(u) ==
    [stage |-> IF u = NoUser THEN "waiting_auth" ELSE "ready",
     subs |-> IF u = NoUser THEN 0 ELSE 1,
     authReady |-> u # NoUser,
     session |-> u]

InitLocals ==
    /\ nextId = 2
    /\ pc = [c \in Clients |-> "idle"]
    /\ op = [c \in Clients |-> "none"]
    /\ gid = [c \in Clients |-> 1]
    /\ doc = [c \in Clients |-> NoDoc]
    /\ newName = [c \in Clients |-> <<>>]
    /\ result = [c \in Clients |-> "none"]
    /\ view = [c \in Clients |-> NoView]
    /\ prevJoined = [c \in Clients |-> 0]
    /\ rejoined = [g \in GroupIds |-> FALSE]
    /\ watch = [version |-> "plain", phase |-> "closed", elapsed |-> 0,
                running |-> FALSE, startTime |-> 0, intervals |-> 0, due |-> 0,
                todayData |-> [k |-> "undefined"], allTimeData |-> [k |-> "undefined"],
                sessions |-> [k |-> "undefined"], last |-> "none"]
    /\ storage = [today |-> [t |-> "missing"], alltime |-> [t |-> "missing"],
                  sessions |-> [t |-> "missing"], lastdate |-> [t |-> "missing"],
                  users |-> [t |-> "missing"], groups |-> [t |-> "missing"]]
    /\ clock = [now |-> 0, day |-> 1, wide |-> FALSE]
    /\ tally = [d \in 0..MaxDays |-> [total |-> 0, sessions |-> 0]]
    /\ login = [location |-> "closed", currentUser |-> [k |-> "undefined"],
                alert |-> "none", form |-> [username |-> <<>>, password |-> <<>>]]

\* who is signed in where, up to renaming of users and clients: every client
\* its own user; the first two clients the same user (two tabs); the first
\* client signed out
SignIns ==
    {[c \in Clients |-> c],
     [c \in Clients |-> IF c = 1 THEN 1 ELSE c - 1],
     [c \in Clients |-> c - 1]}

\* the page starts against an empty collection or one pre-existing group
Init ==
    /\ InitLocals
    /\ \E seed \in {<<>>, Fill(1), Fill(MaxSize - 1), <<1>>} :
          /\ members0 = seed
          /\ groups = [g \in GroupIds |->
                          IF g = 1 /\ seed # <<>> THEN SeedDoc(seed) ELSE NoDoc]
    /\ currentUser \in SignIns
    /\ page = [c \in Clients |-> LoadedPage(currentUser[c])]
    /\ calls = 0

\* ---- handlers ----
\* how a handler invocation ends: the alert it shows, locals dropped
Finish(c, msg) ==
    /\ pc' = [pc EXCEPT ![c] = "idle"]
    /\ result' = [result EXCEPT ![c] = msg]
    /\ doc' = [doc EXCEPT ![c] = NoDoc]
    /\ newName' = [newName EXCEPT ![c] = <<>>]

\* bookkeeping shared by the three handler entries
Enter(c, handler) ==
    /\ pc[c] = "idle"
    /\ op' = [op EXCEPT ![c] = handler]
    /\ calls < MaxCalls
    /\ calls' = calls + 1
    /\ prevJoined' = [prevJoined EXCEPT ![c] =
                         IF result[c] = "joined" THEN gid[c] ELSE 0]

\* createGroup up to its await of add(): auth check, prompt, name validation
CreateStart(c, name) ==
    /\ Enter(c, "create")
    /\ IF Uid(c) = NoUser THEN Finish(c, "auth_required")
       ELSE IF NameCheck(name) # "ok" THEN Finish(c, NameCheck(name))
       ELSE /\ pc' = [pc EXCEPT ![c] = "create_add"]
            /\ newName' = [newName EXCEPT ![c] = name]
            /\ result' = [result EXCEPT ![c] = "none"]
            /\ doc' = doc
    /\ UNCHANGED <<groups, nextId, currentUser, gid, view, page, members0,
                   watch, storage, clock, tally, login, rejoined>>

\* add() commits: a new document under a fresh id
CreateAdd(c) ==
    /\ pc[c] = "create_add"
    /\ nextId <= MaxGroups
    /\ groups' = [groups EXCEPT ![nextId] = NewGroupDoc(newName[c], Uid(c), nextId)]
    /\ nextId' = nextId + 1
    /\ gid' = [gid EXCEPT ![c] = nextId]
    /\ Finish(c, "created")
    /\ UNCHANGED <<currentUser, op, calls, view, page, members0, watch,
                   storage, clock, tally, login, prevJoined, rejoined>>

\* faulty variant of JoinStart: the check of auth.currentUser is missing
JoinStartNoAuth(c, g) ==
    /\ Enter(c, "join")
    /\ gid' = [gid EXCEPT ![c] = g]
    /\ pc' = [pc EXCEPT ![c] = "join_get"]
    /\ result' = [result EXCEPT ![c] = "none"]
    /\ UNCHANGED <<doc, newName>>
    /\ UNCHANGED <<groups, nextId, currentUser, view, page, members0, watch,
                   storage, clock, tally, login, rejoined>>

\* joinGroup up to its await of get()
JoinStart(c, g) ==
    /\ Enter(c, "join")
    /\ gid' = [gid EXCEPT ![c] = g]
    /\ IF Uid(c) = NoUser THEN Finish(c, "auth_required")
       ELSE /\ pc' = [pc EXCEPT ![c] = "join_get"]
            /\ result' = [result EXCEPT ![c] = "none"]
            /\ UNCHANGED <<doc, newName>>
    /\ UNCHANGED <<groups, nextId, currentUser, view, page, members0, watch,
                   storage, clock, tally, login, rejoined>>

\* get() resolves; the pre-checks run on the snapshot up to the await of update()
JoinGet(c) ==
    /\ pc[c] = "join_get"
    /\ LET snap == groups[gid[c]]
           chk == JoinCheck(snap, Uid(c))
       IN IF chk = "ok"
          THEN /\ pc' = [pc EXCEPT ![c] = "join_update"]
               /\ doc' = [doc EXCEPT ![c] = snap]
               /\ UNCHANGED <<result, newName>>
          ELSE Finish(c, chk)
    /\ UNCHANGED <<groups, nextId, currentUser, op, gid, calls, view, page,
                   members0, watch, storage, clock, tally, login, prevJoined,
                   rejoined>>

\* faulty variant of JoinUpdate: set() of the members field alone, which
\* replaces the document
JoinUpdateSet(c) ==
    /\ pc[c] = "join_update"
    /\ LET g == gid[c] IN
       /\ groups' = [groups EXCEPT ![g] =
                        [NoDoc EXCEPT !.exists = TRUE,
                                      !.members = ArrayUnion(groups[g].members, Uid(c))]]
       /\ rejoined' = [rejoined EXCEPT ![g] = @ \/ groups[g].members = <<>>]
       /\ Finish(c, "joined")
    /\ UNCHANGED <<nextId, currentUser, op, gid, calls, view, page, members0,
                   watch, storage, clock, tally, login, prevJoined>>

\* faulty variant of JoinUpdate: writes back the whole array computed from the snapshot
JoinUpdateOverwrite(c) ==
    /\ pc[c] = "join_update"
    /\ LET g == gid[c] IN
       IF groups[g].exists
       THEN /\ groups' = [groups EXCEPT ![g].members = Append(doc[c].members, Uid(c))]
            /\ rejoined' = [rejoined EXCEPT ![g] = @ \/ groups[g].members = <<>>]
            /\ Finish(c, "joined")
       ELSE /\ UNCHANGED <<groups, rejoined>>
            /\ Finish(c, ErrorAlert("no_document"))
    /\ UNCHANGED <<nextId, currentUser, op, gid, calls, view, page, members0,
                   watch, storage, clock, tally, login, prevJoined>>

\* update({members: arrayUnion(uid)}) commits; update() of a missing document rejects
JoinUpdate(c) ==
    /\ pc[c] = "join_update"
    /\ LET g == gid[c] IN
       IF groups[g].exists
       THEN /\ groups' = [groups EXCEPT ![g].members = ArrayUnion(@, Uid(c))]
            /\ rejoined' = [rejoined EXCEPT ![g] = @ \/ groups[g].members = <<>>]
            /\ Finish(c, "joined")
       ELSE /\ UNCHANGED <<groups, rejoined>>
            /\ Finish(c, ErrorAlert("no_document"))
    /\ UNCHANGED <<nextId, currentUser, op, gid, calls, view, page, members0,
                   watch, storage, clock, tally, login, prevJoined>>

\* leaveGroup up to its await of the first get()
LeaveStart(c, g) ==
    /\ Enter(c, "leave")
    /\ gid' = [gid EXCEPT ![c] = g]
    /\ IF Uid(c) = NoUser THEN Finish(c, "auth_required")
       ELSE /\ pc' = [pc EXCEPT ![c] = "leave_get"]
            /\ result' = [result EXCEPT ![c] = "none"]
            /\ UNCHANGED <<doc, newName>>
    /\ UNCHANGED <<groups, nextId, currentUser, view, page, members0, watch,
                   storage, clock, tally, login, rejoined>>

\* the first get() resolves; existence check
LeaveGet(c) ==
    /\ pc[c] = "leave_get"
    /\ LET snap == groups[gid[c]] IN
       IF snap.exists
       THEN /\ pc' = [pc EXCEPT ![c] = "leave_update"]
            /\ doc' = [doc EXCEPT ![c] = snap]
            /\ UNCHANGED <<result, newName>>
       ELSE Finish(c, "not_found")
    /\ UNCHANGED <<groups, nextId, currentUser, op, gid, calls, view, page,
                   members0, watch, storage, clock, tally, login, prevJoined,
                   rejoined>>

\* faulty variant of LeaveUpdate: writes back the snapshot's array without the user
LeaveUpdateOverwrite(c) ==
    /\ pc[c] = "leave_update"
    /\ LET g == gid[c] IN
       IF groups[g].exists
       THEN /\ groups' = [groups EXCEPT ![g].members = ArrayRemove(doc[c].members, Uid(c))]
            /\ pc' = [pc EXCEPT ![c] = "leave_reread"]
            /\ UNCHANGED <<result, doc, newName>>
       ELSE /\ UNCHANGED groups
            /\ Finish(c, ErrorAlert("no_document"))
    /\ UNCHANGED <<nextId, currentUser, op, gid, calls, view, page, members0,
                   watch, storage, clock, tally, login, prevJoined, rejoined>>

\* update({members: arrayRemove(uid)}) commits; update() of a missing document rejects
LeaveUpdate(c) ==
    /\ pc[c] = "leave_update"
    /\ LET g == gid[c] IN
       IF groups[g].exists
       THEN /\ groups' = [groups EXCEPT ![g].members = ArrayRemove(@, Uid(c))]
            /\ pc' = [pc EXCEPT ![c] = "leave_reread"]
            /\ UNCHANGED <<result, doc, newName>>
       ELSE /\ UNCHANGED groups
            /\ Finish(c, ErrorAlert("no_document"))
    /\ UNCHANGED <<nextId, currentUser, op, gid, calls, view, page, members0,
                   watch, storage, clock, tally, login, prevJoined, rejoined>>

\* the re-read resolves; an absent document counts as no members
LeaveReread(c) ==
    /\ pc[c] = "leave_reread"
    /\ LET updated == groups[gid[c]]
           members == IF updated.exists THEN updated.members ELSE <<>>
       IN IF Len(members) = 0
          THEN /\ pc' = [pc EXCEPT ![c] = "leave_delete"]
               /\ UNCHANGED <<result, doc, newName>>
          ELSE Finish(c, "left")
    /\ UNCHANGED <<groups, nextId, currentUser, op, gid, calls, view, page,
                   members0, watch, storage, clock, tally, login, prevJoined,
                   rejoined>>

\* delete() commits, whatever the document holds by now
LeaveDelete(c) ==
    /\ pc[c] = "leave_delete"
    /\ groups' = [groups EXCEPT ![gid[c]] = NoDoc]
    /\ Finish(c, "left")
    /\ UNCHANGED <<nextId, currentUser, op, gid, calls, view, page, members0,
                   watch, storage, clock, tally, login, prevJoined, rejoined>>

\* a pending store request rejects with message m: the handler's catch block
\* alerts the error
StoreFail(c, m) ==
    /\ pc[c] \notin {"idle", "hung"}
    /\ Finish(c, ErrorAlert(m))
    /\ UNCHANGED <<groups, nextId, currentUser, op, gid, calls, view, page,
                   members0, watch, storage, clock, tally, login, prevJoined,
                   rejoined>>

\* the pending store request of the handler is lost: its promise neither
\* resolves nor rejects, and the handler has no timer of its own
RequestLost(c) ==
    /\ pc[c] \notin {"idle", "hung"}
    /\ pc' = [pc EXCEPT ![c] = "hung"]
    /\ UNCHANGED <<groups, nextId, currentUser, op, gid, doc, newName, result,
                   calls, view, page, members0, watch, storage, clock, tally,
                   login, prevJoined, rejoined>>

\* the change stream delivers the current collection to the client's listener
Notify(c) ==
    /\ page[c].subs > 0
    /\ ~view[c].delivered \/ view[c].docs # groups
    /\ view' = [view EXCEPT ![c] = [delivered |-> TRUE, docs |-> groups]]
    /\ UNCHANGED <<groups, nextId, currentUser, pc, op, gid, doc, newName,
                   result, calls, page, members0, watch, storage, clock,
                   tally, login, prevJoined, rejoined>>

Step(c) ==
    \/ \E name \in NameInputs : CreateStart(c, name)
    \/ CreateAdd(c)
    \/ \E g \in GroupIds : JoinStart(c, g)
    \/ JoinGet(c)
    \/ JoinUpdate(c)
    \/ \E g \in GroupIds : LeaveStart(c, g)
    \/ LeaveGet(c)
    \/ LeaveUpdate(c)
    \/ LeaveReread(c)
    \/ LeaveDelete(c)
    \/ \E m \in ErrMessages : StoreFail(c, m)

Next == \E c \in Clients : Step(c)

Spec == Init /\ [][Next]_vars

\* the same program with the live listeners delivering snapshots
NextView == \E c \in Clients : Step(c) \/ Notify(c)

SpecView == Init /\ [][NextView]_vars

TypeOK ==
    /\ nextId \in 2..(MaxGroups + 1)
    /\ \A c \in Clients : pc[c] \in {"idle", "create_add", "join_get", "join_update",
                                    "leave_get", "leave_update", "leave_reread",
                                    "leave_delete", "hung"}
    /\ \A g \in GroupIds : groups[g].exists => groups[g].maxSize = MaxSize
    /\ \A c \in Clients :
          /\ page[c].subs \in 0..MaxSubs
          /\ page[c].stage \in {"loading", "waiting_auth", "ready", "redirected"}
          /\ page[c].stage = "redirected" => page[c].subs = 0


\* ---- the handlers over a store whose answers can be lost ----
\* Every answer that does arrive is handed to the waiting handler (the event
\* loop runs a settled promise's continuation); nothing obliges a lost request
\* to settle.
NextHang == \E c \in Clients : Step(c) \/ RequestLost(c)

SpecHang == Init /\ [][NextHang]_vars /\ \A c \in Clients : WF_vars(Step(c))

\* ---- two callers, one joinGroup or leaveGroup each, on the pre-existing group ----
InitPair ==
    /\ InitLocals
    /\ \E seed \in SeedMembers :
          /\ members0 = seed
          /\ groups = [g \in GroupIds |-> IF g = 1 THEN SeedDoc(seed) ELSE NoDoc]
    /\ currentUser \in SignIns
    /\ page = [c \in Clients |-> LoadedPage(currentUser[c])]
    /\ calls = 0

NextPair ==
    \E c \in Pair :
        \/ /\ op[c] = "none"
           /\ \E g \in GroupIds : JoinStart(c, g) \/ LeaveStart(c, g)
        \/ JoinGet(c)
        \/ JoinUpdate(c)
        \/ LeaveGet(c)
        \/ LeaveUpdate(c)
        \/ LeaveReread(c)
        \/ LeaveDelete(c)
        \/ \E m \in ErrMessages : StoreFail(c, m)

SpecPair == InitPair /\ [][NextPair]_vars

\* ---- the groups page: load, auth state, Refresh, live listeners ----
\* showGroups: clears the list and attaches one more onSnapshot listener;
\* listeners attached earlier stay attached
ShowGroups(c, stage) ==
    /\ page[c].subs < MaxSubs
    /\ page' = [page EXCEPT ![c].subs = @ + 1, ![c].stage = stage]
    /\ view' = [view EXCEPT ![c] = NoView]

\* the DOMContentLoaded handler: showGroups at once for a known user, else an
\* auth-state listener is registered
DomContentLoaded(c) ==
    /\ page[c].stage = "loading"
    /\ IF Uid(c) = NoUser
       THEN /\ page' = [page EXCEPT ![c].stage = "waiting_auth"]
            /\ view' = view
       ELSE ShowGroups(c, "ready")
    /\ UNCHANGED <<groups, nextId, currentUser, pc, op, gid, doc, newName,
                   result, calls, members0, watch, storage, clock, tally,
                   login, prevJoined, rejoined>>

\* the auth library finishes restoring the persisted session, if there is one
AuthInit(c) ==
    /\ ~page[c].authReady
    /\ page' = [page EXCEPT ![c].authReady = TRUE]
    /\ currentUser' = [currentUser EXCEPT ![c] = page[c].session]
    /\ UNCHANGED <<groups, nextId, pc, op, gid, doc, newName, result, calls,
                   view, members0, watch, storage, clock, tally, login,
                   prevJoined, rejoined>>

\* the registered auth-state listener is called with the resolved user: the
\* page is left when there is none, else showGroups
AuthStateChanged(c) ==
    /\ page[c].stage = "waiting_auth" /\ page[c].authReady
    /\ IF Uid(c) = NoUser
       THEN /\ page' = [page EXCEPT ![c].stage = "redirected", ![c].subs = 0]
            /\ view' = view
       ELSE ShowGroups(c, "ready")
    /\ UNCHANGED <<groups, nextId, currentUser, pc, op, gid, doc, newName,
                   result, calls, members0, watch, storage, clock, tally,
                   login, prevJoined, rejoined>>

\* click on Refresh, wired straight to showGroups
RefreshClick(c) ==
    /\ page[c].stage \in {"waiting_auth", "ready"}
    /\ ShowGroups(c, page[c].stage)
    /\ UNCHANGED <<groups, nextId, currentUser, pc, op, gid, doc, newName,
                   result, calls, members0, watch, storage, clock, tally,
                   login, prevJoined, rejoined>>

\* the store refuses a listener of a client without a user: the error callback
\* appends its message and the listener is gone. Whether the store refuses or
\* serves such a listener (Notify) is decided by the deployed access rules.
SnapshotError(c) ==
    /\ page[c].subs > 0 /\ Uid(c) = NoUser
    /\ page' = [page EXCEPT ![c].subs = @ - 1]
    /\ UNCHANGED <<groups, nextId, currentUser, pc, op, gid, doc, newName,
                   result, calls, view, members0, watch, storage, clock,
                   tally, login, prevJoined, rejoined>>

\* pages being opened: nothing run yet, the persisted sessions not yet restored
InitPage ==
    /\ InitLocals
    /\ \E seed \in {<<>>, Fill(1), <<1>>} :
          /\ members0 = seed
          /\ groups = [g \in GroupIds |->
                          IF g = 1 /\ seed # <<>> THEN SeedDoc(seed) ELSE NoDoc]
    /\ currentUser = [c \in Clients |-> NoUser]
    /\ \E f \in SignIns :
          page = [c \in Clients |->
                     [stage |-> "loading", subs |-> 0, authReady |-> FALSE,
                      session |-> f[c]]]
    /\ calls = 0

NextPage ==
    \E c \in Clients :
        \/ DomContentLoaded(c)
        \/ AuthInit(c)
        \/ AuthStateChanged(c)
        \/ RefreshClick(c)
        \/ Notify(c)
        \/ SnapshotError(c)

SpecPage == InitPage /\ [][NextPage]_vars

\* the table row showGroups renders for a document, seen by user uid: name with
\* the count, the members cell (the uids joined with ", "), the button
RenderRow(d, uid) ==
    [group |-> <<d.name, Len(d.members), d.maxSize>>,
     members |-> d.members,
     action |-> IF uid # NoUser /\ Includes(d.members, uid) THEN "Leave" ELSE "Join"]

\* ---- values of the browser's scripts and their JSON texts ----
JNull == [k |-> "null"]
JUndef == [k |-> "undefined"]
JNum(n) == [k |-> "num", n |-> n]
\* a string, as the sequence of its characters (or runs of characters)
JStr(s) == [k |-> "str", s |-> s]
JArr(items) == [k |-> "array", items |-> items]
\* the { total, sessions } object of the day's and the all-time figures
JData(total, sessions) == [k |-> "object", total |-> total, sessions |-> sessions]

\* property access: undefined for a property the value does not have
Get(j, f) == IF f \in DOMAIN j THEN j[f] ELSE JUndef

TypeOf(j) ==
    CASE j.k = "num" -> "number"
      [] j.k = "str" -> "string"
      [] j.k = "undefined" -> "undefined"
      [] OTHER -> "object"

\* what an if or an || takes for true
Truthy(j) ==
    CASE j.k \in {"null", "undefined"} -> FALSE
      [] j.k = "num" -> j.n # 0
      [] j.k = "str" -> j.s # <<>>
      [] OTHER -> TRUE

\* characters outside Latin-1, which btoa refuses
WideChars == {"U+4E0B", "U+5348"}
Latin1(s) == \A i \in 1..Len(s) : s[i] \notin WideChars

\* ---- localStorage entries ----
NoEntry == [t |-> "missing"]
\* a string that is neither base64 nor JSON
Garbage == [t |-> "garbage"]
\* JSON.stringify(j)
JsonText(j) == [t |-> "json", v |-> j]
\* btoa(JSON.stringify(j))
B64Text(j) == [t |-> "b64", v |-> j]
\* a string stored as it is
PlainText(s) == [t |-> "text", s |-> s]

\* a thrown exception, as the value of the expression that threw
Throws == [k |-> "throws"]

\* JSON.parse(localStorage.getItem(key)): null for a missing key (the text
\* "null"), the value for JSON text, SyntaxError for anything else
JsonParse(entry) ==
    CASE entry.t = "missing" -> JNull
      [] entry.t = "json" -> entry.v
      [] OTHER -> Throws

\* the strings of a session object
SessionStrings(j) == {Get(j, f).s : f \in {g \in {"formatted", "date", "time"} : Get(j, g).k = "str"}}

\* whether btoa accepts the JSON text of the value
CanEncrypt(j) ==
    IF j.k = "array"
    THEN \A i \in 1..Len(j.items) : \A s \in SessionStrings(j.items[i]) : Latin1(s)
    ELSE TRUE

\* encryptData: btoa(JSON.stringify(data)); btoa throws on a character outside Latin-1
EncryptData(j) == IF CanEncrypt(j) THEN B64Text(j) ELSE Throws

\* decryptData: JSON.parse(atob(encoded)), null when either throws
DecryptData(entry) == IF entry.t = "b64" THEN entry.v ELSE JNull

\* ---- the stopwatch ----
MinSession == 1000
MaxHistory == 20
TimerPeriod == 1000

Days == 0..MaxDays
\* the stretch of time followed, in half timer periods
MaxNow == MaxSteps * (TimerPeriod \div 2)
Versions == {"plain", "validated"}

ZeroData == JData(JNum(0), JNum(0))

\* faulty variant of ValidateStoredData: the tests for negative figures are missing
ValidateStoredDataNoSign(data) ==
    IF ~Truthy(data) \/ TypeOf(data) # "object" THEN JNull
    ELSE IF TypeOf(Get(data, "total")) # "number" THEN JNull
    ELSE IF TypeOf(Get(data, "sessions")) # "number" THEN JNull
    ELSE data

\* validateStoredData: the object itself, or null
ValidateStoredData(data) ==
    IF ~Truthy(data) \/ TypeOf(data) # "object" THEN JNull
    ELSE IF TypeOf(Get(data, "total")) # "number" \/ Get(data, "total").n < 0 THEN JNull
    ELSE IF TypeOf(Get(data, "sessions")) # "number" \/ Get(data, "sessions").n < 0
         THEN JNull
    ELSE data

\* validateSession: the session itself, or null
ValidateSession(session) ==
    IF ~Truthy(session) \/ TypeOf(session) # "object" THEN JNull
    ELSE IF TypeOf(Get(session, "duration")) # "number"
            \/ Get(session, "duration").n < MinSession THEN JNull
    ELSE IF TypeOf(Get(session, "timestamp")) # "number" THEN JNull
    ELSE session

\* x || y
OrElse(x, y) == IF Truthy(x) THEN x ELSE y

\* the figures one key loads to, in the validated version
LoadDataValidated(entry) ==
    LET stored == IF entry.t = "missing" THEN JNull ELSE DecryptData(entry)
    IN OrElse(ValidateStoredData(stored), ZeroData)

\* the session list the validated version loads
LoadSessionsValidated(entry) ==
    LET stored == IF entry.t = "missing" THEN JNull ELSE DecryptData(entry)
    IN IF stored.k = "array"
       THEN JArr(SelectSeq(stored.items, LAMBDA s : Truthy(ValidateSession(s))))
       ELSE JArr(<<>>)

\* JSON.parse(getItem(key)) || fallback, of the plain version
LoadPlain(entry, fallback) ==
    IF JsonParse(entry) = Throws THEN Throws ELSE OrElse(JsonParse(entry), fallback)

Pad2(n) == IF n < 10 THEN <<"0", ToString(n)>> ELSE <<ToString(n)>>

\* formatTime: HH:MM:SS
FormatTime(ms) ==
    Pad2(ms \div 3600000) \o <<":">> \o Pad2((ms % 3600000) \div 60000)
    \o <<":">> \o Pad2((ms % 60000) \div 1000)

\* toDateString / toLocaleDateString of a calendar day
DateText(d) == <<"day", ToString(d)>>

\* toLocaleTimeString: "9:00 PM" in some locales, in others a text with
\* characters outside Latin-1
TimeText(wide) == IF wide THEN <<"U+4E0B", "U+5348", "9:00">> ELSE <<"9:00", " ", "PM">>

\* the session object saveSession builds
NewSession(elapsed, now, day, wide) ==
    [k |-> "object", duration |-> JNum(elapsed), formatted |-> JStr(FormatTime(elapsed)),
     date |-> JStr(DateText(day)), time |-> JStr(TimeText(wide)),
     timestamp |-> JNum(now)]

\* the i-th most recent of the sessions recorded on earlier days
OldSession(i) == NewSession(MinSession, 0 - i, 0, FALSE)
OldSessions(n) == JArr([i \in 1..n |-> OldSession(i)])

\* the text a version stores for a value
StoredText(version, j) == IF version = "plain" THEN JsonText(j) ELSE EncryptData(j)

\* saveAllData: three setItem in a row; in the validated version a throwing
\* encryptData ends the try block with the earlier keys already written
SaveAllData(version, st, today, allTime, sessions) ==
    LET t1 == StoredText(version, today)
        t2 == StoredText(version, allTime)
        t3 == StoredText(version, sessions)
    IN IF t1 = Throws THEN st
       ELSE IF t2 = Throws THEN [st EXCEPT !.today = t1]
       ELSE IF t3 = Throws THEN [st EXCEPT !.today = t1, !.alltime = t2]
       ELSE [st EXCEPT !.today = t1, !.alltime = t2, !.sessions = t3]

\* the script's variables before anything is loaded
ClosedWatch(version) ==
    [version |-> version, phase |-> "closed", elapsed |-> 0, running |-> FALSE,
     startTime |-> 0, intervals |-> 0, due |-> 0, todayData |-> JUndef,
     allTimeData |-> JUndef, sessions |-> JUndef, last |-> "none"]

EmptyStorage ==
    [today |-> NoEntry, alltime |-> NoEntry, sessions |-> NoEntry, lastdate |-> NoEntry,
     users |-> NoEntry, groups |-> NoEntry]

NoTally == [d \in Days |-> [total |-> 0, sessions |-> 0]]

NoLogin == [location |-> "closed", currentUser |-> JUndef, alert |-> "none",
            form |-> [username |-> <<>>, password |-> <<>>]]

\* the other pages are not open
GroupsIdle ==
    /\ groups = [g \in GroupIds |-> NoDoc]
    /\ nextId = 2
    /\ currentUser = [c \in Clients |-> NoUser]
    /\ pc = [c \in Clients |-> "idle"]
    /\ op = [c \in Clients |-> "none"]
    /\ gid = [c \in Clients |-> 1]
    /\ doc = [c \in Clients |-> NoDoc]
    /\ newName = [c \in Clients |-> <<>>]
    /\ result = [c \in Clients |-> "none"]
    /\ calls = 0
    /\ view = [c \in Clients |-> NoView]
    /\ page = [c \in Clients |-> LoadedPage(NoUser)]
    /\ members0 = <<>>
    /\ prevJoined = [c \in Clients |-> 0]
    /\ rejoined = [g \in GroupIds |-> FALSE]

\* the script's top level: timer variables, the three loads, checkNewDay
PageLoad ==
    LET v == watch.version
        today == IF v = "plain" THEN LoadPlain(storage.today, ZeroData)
                 ELSE LoadDataValidated(storage.today)
        allTime == IF v = "plain" THEN LoadPlain(storage.alltime, ZeroData)
                   ELSE LoadDataValidated(storage.alltime)
        sessions == IF v = "plain" THEN LoadPlain(storage.sessions, JArr(<<>>))
                    ELSE LoadSessionsValidated(storage.sessions)
        fresh == [ClosedWatch(v) EXCEPT !.last = "load"]
        newDay == storage.lastdate # PlainText(DateText(clock.day))
        today2 == IF newDay THEN ZeroData ELSE today
    IN /\ IF today = Throws
          THEN /\ watch' = [fresh EXCEPT !.phase = "crashed"]
               /\ storage' = storage
          ELSE IF allTime = Throws
          THEN /\ watch' = [fresh EXCEPT !.phase = "crashed", !.todayData = today]
               /\ storage' = storage
          ELSE IF sessions = Throws
          THEN /\ watch' = [fresh EXCEPT !.phase = "crashed", !.todayData = today,
                                         !.allTimeData = allTime]
               /\ storage' = storage
          ELSE /\ watch' = [fresh EXCEPT !.phase = "open", !.todayData = today2,
                                         !.allTimeData = allTime, !.sessions = sessions]
               /\ storage' =
                     IF newDay
                     THEN SaveAllData(v, [storage EXCEPT !.lastdate =
                                                      PlainText(DateText(clock.day))],
                                      today2, allTime, sessions)
                     ELSE storage
       /\ UNCHANGED <<clock, tally, login>>
       /\ UNCHANGED groupsVars

\* faulty variant of Toggle: starting counts from zero again
ToggleRestarts ==
    /\ watch.phase = "open"
    /\ IF ~watch.running
       THEN watch' = [watch EXCEPT !.startTime = clock.now,
                                   !.intervals = @ + 1,
                                   !.due = clock.now + TimerPeriod,
                                   !.running = TRUE, !.last = "toggle"]
       ELSE watch' = [watch EXCEPT !.intervals = IF @ > 0 THEN @ - 1 ELSE 0,
                                   !.running = FALSE, !.last = "toggle"]
    /\ UNCHANGED <<storage, clock, tally, login>>
    /\ UNCHANGED groupsVars

\* faulty variant of Toggle: stopping leaves the interval timer scheduled
ToggleNoClear ==
    /\ watch.phase = "open"
    /\ IF ~watch.running
       THEN watch' = [watch EXCEPT !.startTime = clock.now - watch.elapsed,
                                   !.intervals = @ + 1,
                                   !.due = clock.now + TimerPeriod,
                                   !.running = TRUE, !.last = "toggle"]
       ELSE watch' = [watch EXCEPT !.running = FALSE, !.last = "toggle"]
    /\ UNCHANGED <<storage, clock, tally, login>>
    /\ UNCHANGED groupsVars

\* toggle: start with an interval timer, or stop and clear it
Toggle ==
    /\ watch.phase = "open"
    /\ IF ~watch.running
       THEN watch' = [watch EXCEPT !.startTime = clock.now - watch.elapsed,
                                   !.intervals = @ + 1,
                                   !.due = clock.now + TimerPeriod,
                                   !.running = TRUE, !.last = "toggle"]
       ELSE watch' = [watch EXCEPT !.intervals = IF @ > 0 THEN @ - 1 ELSE 0,
                                   !.running = FALSE, !.last = "toggle"]
    /\ UNCHANGED <<storage, clock, tally, login>>
    /\ UNCHANGED groupsVars

\* updateTimer, called by a due interval timer
Tick ==
    /\ watch.phase = "open"
    /\ watch.intervals > 0 /\ clock.now >= watch.due
    /\ watch' = [watch EXCEPT !.elapsed = clock.now - watch.startTime,
                              !.due = clock.now + TimerPeriod, !.last = "tick"]
    /\ UNCHANGED <<storage, clock, tally, login>>
    /\ UNCHANGED groupsVars

\* faulty variant of Unshift: keeps the last 20 instead of the first 20
UnshiftKeepLast(sessions, session) ==
    LET all == <<session>> \o sessions.items
    IN JArr(IF Len(all) > MaxHistory THEN SubSeq(all, Len(all) - MaxHistory + 1, Len(all))
            ELSE all)

\* sessions.unshift(session) and the slice to the first 20
Unshift(sessions, session) ==
    LET all == <<session>> \o sessions.items
    IN JArr(IF Len(all) > MaxHistory THEN SubSeq(all, 1, MaxHistory) ELSE all)

\* the timer part of saveSession and clearAll: reset and stop
StopAndReset(w) ==
    [w EXCEPT !.elapsed = 0,
              !.intervals = IF w.running /\ @ > 0 THEN @ - 1 ELSE @,
              !.running = FALSE]

\* faulty variant of SaveSession: it returns after today's figures, as on a
\* detected overflow of the all-time total
SaveSessionTodayOnly ==
    /\ watch.phase = "open"
    /\ LET session == NewSession(watch.elapsed, clock.now, clock.day, clock.wide)
           total == watch.todayData.total.n + watch.elapsed
       IN IF watch.elapsed < MinSession
          THEN /\ watch' = [watch EXCEPT !.last = "saveSession"]
               /\ UNCHANGED <<storage, tally>>
          ELSE /\ watch' = [watch EXCEPT
                               !.sessions = Unshift(watch.sessions, session),
                               !.todayData = JData(JNum(total),
                                                   JNum(watch.todayData.sessions.n + 1)),
                               !.last = "saveSession"]
               /\ UNCHANGED <<storage, tally>>
    /\ UNCHANGED <<clock, login>>
    /\ UNCHANGED groupsVars

\* faulty variant of SaveSession: the test of elapsed is missing
SaveSessionAlways ==
    /\ watch.phase = "open"
    /\ LET session == NewSession(watch.elapsed, clock.now, clock.day, clock.wide)
           total == watch.todayData.total.n + watch.elapsed
           allTotal == watch.allTimeData.total.n + watch.elapsed
           w == [StopAndReset(watch) EXCEPT
                    !.sessions = Unshift(watch.sessions, session),
                    !.todayData = JData(JNum(total), JNum(watch.todayData.sessions.n + 1)),
                    !.allTimeData = JData(JNum(allTotal),
                                          JNum(watch.allTimeData.sessions.n + 1)),
                    !.last = "saveSession"]
       IN /\ watch' = w
          /\ storage' = SaveAllData(w.version, storage, w.todayData, w.allTimeData,
                                    w.sessions)
          /\ tally' = [tally EXCEPT ![clock.day] =
                          [total |-> @.total + watch.elapsed, sessions |-> @.sessions + 1]]
    /\ UNCHANGED <<clock, login>>
    /\ UNCHANGED groupsVars

\* saveSession. The validated version also validates the session it built and
\* returns when a sum comes out smaller than the total it was added to, after
\* the statements before that return have run.
SaveSession ==
    /\ watch.phase = "open"
    /\ LET session == NewSession(watch.elapsed, clock.now, clock.day, clock.wide)
           checked == watch.version = "validated"
           total == watch.todayData.total.n + watch.elapsed
           allTotal == watch.allTimeData.total.n + watch.elapsed
           listed == [watch EXCEPT !.sessions = Unshift(watch.sessions, session),
                                   !.last = "saveSession"]
           counted == [listed EXCEPT !.todayData =
                          JData(JNum(total), JNum(watch.todayData.sessions.n + 1))]
           w == [StopAndReset(counted) EXCEPT !.allTimeData =
                    JData(JNum(allTotal), JNum(watch.allTimeData.sessions.n + 1))]
       IN IF watch.elapsed < MinSession
             \/ (checked /\ ~Truthy(ValidateSession(session)))
          THEN /\ watch' = [watch EXCEPT !.last = "saveSession"]
               /\ UNCHANGED <<storage, tally>>
          ELSE IF checked /\ total < watch.todayData.total.n
          THEN /\ watch' = listed
               /\ UNCHANGED <<storage, tally>>
          ELSE IF checked /\ allTotal < watch.allTimeData.total.n
          THEN /\ watch' = counted
               /\ UNCHANGED <<storage, tally>>
          ELSE /\ watch' = w
               /\ storage' = SaveAllData(w.version, storage, w.todayData,
                                         w.allTimeData, w.sessions)
               /\ tally' = [tally EXCEPT ![clock.day] =
                               [total |-> @.total + watch.elapsed,
                                sessions |-> @.sessions + 1]]
    /\ UNCHANGED <<clock, login>>
    /\ UNCHANGED groupsVars

\* faulty variant of ClearAll: the all-time figures are kept
ClearAllKeepsAllTime(confirmed) ==
    /\ watch.phase = "open"
    /\ IF confirmed
       THEN LET w == [StopAndReset(watch) EXCEPT
                         !.todayData = ZeroData,
                         !.sessions = JArr(<<>>), !.last = "clearAll"]
            IN /\ watch' = w
               /\ storage' = SaveAllData(w.version, storage, w.todayData,
                                         w.allTimeData, w.sessions)
               /\ tally' = NoTally
       ELSE /\ watch' = [watch EXCEPT !.last = "clearAll"]
            /\ UNCHANGED <<storage, tally>>
    /\ UNCHANGED <<clock, login>>
    /\ UNCHANGED groupsVars

\* clearAll, with the answer to its confirm()
ClearAll(confirmed) ==
    /\ watch.phase = "open"
    /\ IF confirmed
       THEN LET w == [StopAndReset(watch) EXCEPT
                         !.todayData = ZeroData, !.allTimeData = ZeroData,
                         !.sessions = JArr(<<>>), !.last = "clearAll"]
            IN /\ watch' = w
               /\ storage' = SaveAllData(w.version, storage, w.todayData,
                                         w.allTimeData, w.sessions)
               /\ tally' = NoTally
       ELSE /\ watch' = [watch EXCEPT !.last = "clearAll"]
            /\ UNCHANGED <<storage, tally>>
    /\ UNCHANGED <<clock, login>>
    /\ UNCHANGED groupsVars

\* time passes
Advance(dt) ==
    /\ clock.now + dt <= MaxNow
    /\ clock' = [clock EXCEPT !.now = @ + dt]
    /\ UNCHANGED <<watch, storage, tally, login>>
    /\ UNCHANGED groupsVars

\* midnight passes
Midnight ==
    /\ clock.day < MaxDays
    /\ clock' = [clock EXCEPT !.day = @ + 1]
    /\ UNCHANGED <<watch, storage, tally, login>>
    /\ UNCHANGED groupsVars

\* what earlier days' use of a version leaves in storage: n sessions recorded
\* on day 0
UsedStorage(version, n) ==
    IF n = 0 THEN EmptyStorage
    ELSE [EmptyStorage EXCEPT
             !.today = StoredText(version, JData(JNum(n * MinSession), JNum(n))),
             !.alltime = StoredText(version, JData(JNum(n * MinSession), JNum(n))),
             !.sessions = StoredText(version, OldSessions(n)),
             !.lastdate = PlainText(DateText(0))]

\* the page is opened on day 1 over what earlier use left
InitWatch ==
    /\ GroupsIdle
    /\ login = NoLogin
    /\ \E version \in Versions, n \in {0, MaxHistory - 1, MaxHistory}, wide \in BOOLEAN :
          /\ wide => n = 0
          /\ watch = ClosedWatch(version)
          /\ storage = UsedStorage(version, n)
          /\ tally = [NoTally EXCEPT ![0] = [total |-> n * MinSession, sessions |-> n]]
          /\ clock = [now |-> 0, day |-> 1, wide |-> wide]

NextWatch ==
    \/ PageLoad
    \/ Toggle
    \/ Tick
    \/ SaveSession
    \/ \E confirmed \in BOOLEAN : ClearAll(confirmed)
    \/ \E dt \in {TimerPeriod \div 2, TimerPeriod} : Advance(dt)
    \/ Midnight

SpecWatch == InitWatch /\ [][NextWatch]_vars

\* ---- page load over any storage contents ----
GoodSession == NewSession(MinSession, 0, 0, FALSE)

\* what the figures keys can hold
DataInputs ==
    {NoEntry, Garbage, PlainText(<<"5">>)}
    \cup {B64Text(j) : j \in
             {ZeroData, JData(JNum(5000), JNum(2)), JData(JNum(0 - 1), JNum(2)),
              JData(JNum(5000), JNum(0 - 2)), JData(JStr(<<"5">>), JNum(2)),
              [k |-> "object", total |-> JNum(5000)], JNum(7), JNull, JArr(<<>>)}}
    \cup {JsonText(j) : j \in {JData(JNum(5000), JNum(2)), JData(JNum(0 - 1), JNum(2)),
                               JNum(7)}}

\* what the sessions key can hold
SessionsInputs ==
    {NoEntry, Garbage}
    \cup {B64Text(j) : j \in
             {JArr(<<>>), JData(JNum(1), JNum(1)),
              JArr(<<GoodSession,
                     [GoodSession EXCEPT !.duration = JNum(MinSession - 1)],
                     [GoodSession EXCEPT !.duration = JStr(<<"1000">>)],
                     [k |-> "object", duration |-> JNum(MinSession)],
                     JNull, JNum(3)>>)}}
    \cup {JsonText(j) : j \in {JArr(<<GoodSession, JNum(3)>>), JNum(7)}}

InitLoad ==
    /\ GroupsIdle
    /\ login = NoLogin
    /\ tally = NoTally
    /\ clock = [now |-> 0, day |-> 1, wide |-> FALSE]
    /\ \E version \in Versions : watch = ClosedWatch(version)
    /\ \E t \in DataInputs, a \in DataInputs, s \in SessionsInputs, d \in {0, 1} :
          storage = [EmptyStorage EXCEPT !.today = t, !.alltime = a, !.sessions = s,
                                         !.lastdate = PlainText(DateText(d))]

NextLoad == watch.phase = "closed" /\ PageLoad

SpecLoad == InitLoad /\ [][NextLoad]_vars

\* ---- the login page ----
\* what can be typed into the two fields
UserNames == {<<>>, <<"ann">>, <<"bob">>}
Passwords == {<<>>, <<"p1">>, <<"p2">>}

\* { username, password }
UserObj(username, password) ==
    [k |-> "object", username |-> JStr(username), password |-> JStr(password)]

\* users.find(u => u.username === username): the index of the first match, 0
\* when there is none
FindUser(users, username) ==
    LET hits == {i \in 1..Len(users) : users[i].username = JStr(username)}
    IN IF hits = {} THEN 0 ELSE CHOOSE i \in hits : \A j \in hits : i <= j

\* the script's top level: the users key is created when it is missing
OpenLogin ==
    /\ login.location # "login"
    /\ login' = [login EXCEPT !.location = "login", !.alert = "none",
                              !.form = [username |-> <<>>, password |-> <<>>]]
    /\ storage' = IF storage.users.t = "missing"
                  THEN [storage EXCEPT !.users = JsonText(JArr(<<>>))]
                  ELSE storage
    /\ UNCHANGED <<watch, clock, tally>>
    /\ UNCHANGED groupsVars

\* the user fills in the form
TypeForm(username, password) ==
    /\ login.location = "login"
    /\ login' = [login EXCEPT !.form = [username |-> username, password |-> password]]
    /\ UNCHANGED <<watch, storage, clock, tally>>
    /\ UNCHANGED groupsVars

\* faulty variant of Submit: a known user with another password is logged in
\* and the password typed replaces the stored one
SubmitOverwrites ==
    /\ login.location = "login"
    /\ LET username == login.form.username
           password == login.form.password
           users == JsonParse(storage.users).items
           i == FindUser(users, username)
           entered == [login EXCEPT !.currentUser = JStr(username),
                                    !.location = "homepage"]
       IN IF i > 0
          THEN /\ login' = [entered EXCEPT !.alert = "login_successful"]
               /\ storage' = [storage EXCEPT !.users =
                                 JsonText(JArr([users EXCEPT ![i] =
                                                   UserObj(username, password)]))]
          ELSE IF username # <<>> /\ password # <<>>
          THEN /\ login' = [entered EXCEPT !.alert = "account_created"]
               /\ storage' = [storage EXCEPT !.users =
                                 JsonText(JArr(Append(users, UserObj(username, password))))]
          ELSE UNCHANGED <<login, storage>>
    /\ UNCHANGED <<watch, clock, tally>>
    /\ UNCHANGED groupsVars

\* the form's submit handler
Submit ==
    /\ login.location = "login"
    /\ LET username == login.form.username
           password == login.form.password
           users == JsonParse(storage.users).items
           i == FindUser(users, username)
           entered == [login EXCEPT !.currentUser = JStr(username),
                                    !.location = "homepage"]
       IN IF i > 0
          THEN /\ login' = IF users[i].password = JStr(password)
                           THEN [entered EXCEPT !.alert = "login_successful"]
                           ELSE [login EXCEPT !.alert = "wrong_password"]
               /\ storage' = storage
          ELSE IF username # <<>> /\ password # <<>>
          THEN /\ login' = [entered EXCEPT !.alert = "account_created"]
               /\ storage' = [storage EXCEPT !.users =
                                 JsonText(JArr(Append(users, UserObj(username, password))))]
          ELSE UNCHANGED <<login, storage>>
    /\ UNCHANGED <<watch, clock, tally>>
    /\ UNCHANGED groupsVars

\* the tab is closed: its sessionStorage is gone, localStorage stays
CloseTab ==
    /\ login.location # "closed"
    /\ login' = NoLogin
    /\ UNCHANGED <<watch, storage, clock, tally>>
    /\ UNCHANGED groupsVars

InitLogin ==
    /\ GroupsIdle
    /\ watch = ClosedWatch("plain")
    /\ storage = EmptyStorage
    /\ clock = [now |-> 0, day |-> 1, wide |-> FALSE]
    /\ tally = NoTally
    /\ login = NoLogin

NextLogin ==
    \/ OpenLogin
    \/ \E username \in UserNames, password \in Passwords : TypeForm(username, password)
    \/ Submit
    \/ CloseTab

SpecLogin == InitLogin /\ [][NextLogin]_vars

\* ---- the groups page kept in localStorage ----
LocalUsers == {<<"ann">>, <<"bob">>}
\* what the prompt returns: nothing, or a name
LocalNames == {<<>>, <<"g">>}

\* the stored group list
LocalGroups == JsonParse(storage.groups).items

\* the group object createGroup builds: the id is the list's length plus one
NewLocalGroup(list, name, user) ==
    [k |-> "object", id |-> JNum(Len(list) + 1), name |-> JStr(name),
     members |-> JArr(<<user>>), maxSize |-> JNum(MaxSize)]

\* list.find(g => g.id === groupId): the index of the first match
FindGroup(list, groupId) ==
    CHOOSE i \in 1..Len(list) :
        /\ list[i].id = groupId
        /\ \A j \in 1..(i - 1) : list[j].id # groupId

\* the page script: the groups key is created when missing, and the list is
\* shown to a logged-in visitor
LocalPageLoad ==
    /\ login.location = "homepage"
    /\ storage' = IF storage.groups.t = "missing"
                  THEN [storage EXCEPT !.groups = JsonText(JArr(<<>>))]
                  ELSE storage
    /\ login' = [login EXCEPT !.location = IF Truthy(login.currentUser)
                                           THEN "groups" ELSE "index",
                              !.alert = IF Truthy(login.currentUser)
                                        THEN "none" ELSE "please_login"]
    /\ UNCHANGED <<watch, clock, tally>>
    /\ UNCHANGED groupsVars

\* createGroup
LocalCreate(name) ==
    /\ login.location = "groups"
    /\ Len(LocalGroups) < MaxLocalGroups
    /\ IF name = <<>>
       THEN UNCHANGED <<login, storage>>
       ELSE /\ storage' = [storage EXCEPT !.groups =
                              JsonText(JArr(Append(LocalGroups,
                                  NewLocalGroup(LocalGroups, name, login.currentUser))))]
            /\ login' = [login EXCEPT !.alert = "group_created"]
    /\ UNCHANGED <<watch, clock, tally>>
    /\ UNCHANGED groupsVars

\* joinGroup, called by the Join button of a row with that row's id
LocalJoin(row) ==
    /\ login.location = "groups"
    /\ row \in 1..Len(LocalGroups)
    /\ ~\E m \in 1..Len(LocalGroups[row].members.items) :
           LocalGroups[row].members.items[m] = login.currentUser
    /\ LET list == LocalGroups
           i == FindGroup(list, list[row].id)
           members == list[i].members.items
       IN IF Len(members) >= list[i].maxSize.n
          THEN /\ login' = [login EXCEPT !.alert = "group_full"]
               /\ storage' = storage
          ELSE IF \E m \in 1..Len(members) : members[m] = login.currentUser
          THEN /\ login' = [login EXCEPT !.alert = "already_member"]
               /\ storage' = storage
          ELSE /\ login' = [login EXCEPT !.alert = "joined"]
               /\ storage' = [storage EXCEPT !.groups =
                                 JsonText(JArr([list EXCEPT ![i].members =
                                     JArr(Append(members, login.currentUser))]))]
    /\ UNCHANGED <<watch, clock, tally>>
    /\ UNCHANGED groupsVars

\* leaveGroup, called by the Leave button of a row with that row's id
LocalLeave(row) ==
    /\ login.location = "groups"
    /\ row \in 1..Len(LocalGroups)
    /\ \E m \in 1..Len(LocalGroups[row].members.items) :
          LocalGroups[row].members.items[m] = login.currentUser
    /\ LET list == LocalGroups
           i == FindGroup(list, list[row].id)
           left == [list EXCEPT ![i].members =
                       JArr(SelectSeq(list[i].members.items,
                                      LAMBDA member : member # login.currentUser))]
       IN /\ storage' = [storage EXCEPT !.groups =
                            JsonText(JArr(SelectSeq(left,
                                LAMBDA g : Len(g.members.items) > 0)))]
          /\ login' = [login EXCEPT !.alert = "left"]
    /\ UNCHANGED <<watch, clock, tally>>
    /\ UNCHANGED groupsVars

\* another user logs in in this browser and comes back to the groups page
SwitchUser(user) ==
    /\ login.location = "groups"
    /\ login.currentUser # JStr(user)
    /\ login' = [login EXCEPT !.currentUser = JStr(user), !.alert = "none"]
    /\ UNCHANGED <<watch, storage, clock, tally>>
    /\ UNCHANGED groupsVars

\* a visitor on the homepage, logged in or not, before the groups page was
\* ever opened in this browser
InitLocal ==
    /\ GroupsIdle
    /\ watch = ClosedWatch("plain")
    /\ storage = EmptyStorage
    /\ clock = [now |-> 0, day |-> 1, wide |-> FALSE]
    /\ tally = NoTally
    /\ \E u \in {JUndef} \cup {JStr(n) : n \in LocalUsers} :
          login = [NoLogin EXCEPT !.location = "homepage", !.currentUser = u]

NextLocal ==
    \/ LocalPageLoad
    \/ \E name \in LocalNames : LocalCreate(name)
    \/ \E row \in 1..MaxLocalGroups : LocalJoin(row) \/ LocalLeave(row)
    \/ \E user \in LocalUsers : SwitchUser(user)

SpecLocal == InitLocal /\ [][NextLocal]_vars

\* ---- vocabulary of the properties ----
Done(c) == pc[c] = "idle" /\ result[c] # "none"
\* alerts of a call that ended in its catch block: a rejected request, or an
\* update() of a document that is gone
RejectAlerts == {ErrorAlert(m) : m \in ErrMessages}
CatchAlerts == RejectAlerts \cup {ErrorAlert("no_document")}
Occurrences(members, uid) == Cardinality({i \in 1..Len(members) : members[i] = uid})
MemberSet(members) == {members[i] : i \in 1..Len(members)}
IsMember(g, uid) == groups[g].exists /\ Includes(groups[g].members, uid)
\* client c has finished a call of the handler on group g, no request of it rejected
Ran(c, handler, g) ==
    Done(c) /\ op[c] = handler /\ gid[c] = g /\ result[c] \notin RejectAlerts

\* C1: every existing group has at most maxSize members, in every reachable
\* state of the store under any interleaving of create, join and leave.
CapacityRespected ==
    \A g \in GroupIds : groups[g].exists => Len(groups[g].members) <= groups[g].maxSize

\* C2: two joinGroup calls by different non-member users on a group with
\* exactly one open slot: exactly one reports success, the other reports
\* group-full, the loser is not a member, and the group ends with maxSize members.
TwoJoinersOneSlot(a, b) ==
    /\ a # b /\ Uid(a) # Uid(b) /\ Uid(a) # NoUser /\ Uid(b) # NoUser
    /\ Len(members0) = MaxSize - 1
    /\ ~Includes(members0, Uid(a)) /\ ~Includes(members0, Uid(b))
    /\ Ran(a, "join", 1) /\ Ran(b, "join", 1)

LastSlotHasOneWinner ==
    \A a, b \in Pair :
        TwoJoinersOneSlot(a, b) =>
            /\ \/ result[a] = "joined" /\ result[b] = "group_full" /\ ~IsMember(1, Uid(b))
               \/ result[b] = "joined" /\ result[a] = "group_full" /\ ~IsMember(1, Uid(a))
            /\ groups[1].exists /\ Len(groups[1].members) = MaxSize

\* C3: the delete of leaveGroup's empty-group cleanup never removes a group
\* that has a member at the moment the delete is applied: a group another
\* user joined after the leaver's re-read survives the cleanup.
CleanupSparesMembers ==
    [][\A c \in Clients :
          (/\ pc[c] = "leave_delete" /\ result'[c] = "left"
           /\ groups[gid[c]].exists
           /\ MemberSet(groups[gid[c]].members) \ {Uid(c)} # {})
          => groups'[gid[c]].exists]_vars

\* C4: no existing group lists a user identifier more than once.
NoDuplicateMembers ==
    \A g \in GroupIds :
        groups[g].exists =>
            \A i, j \in 1..Len(groups[g].members) :
                i # j => groups[g].members[i] # groups[g].members[j]

\* two clients signed in as the same user both committed a join on one group
SameUserJoinedTwice ==
    \E a, b \in Clients :
        /\ a # b /\ Uid(a) = Uid(b) /\ Uid(a) # NoUser
        /\ Ran(a, "join", gid[b]) /\ Ran(b, "join", gid[a])
        /\ result[a] = "joined" /\ result[b] = "joined"
        /\ IsMember(gid[a], Uid(a))

\* C5: no existing group has an empty members list, in any reachable state.
NoEmptyGroup ==
    \A g \in GroupIds : groups[g].exists => groups[g].members # <<>>

\* C6: a group emptied by a leave, with no join following, is shown with zero
\* members to a subscriber in at most one notification before it disappears.
ShowsEmpty(v, g) == v.delivered /\ v.docs[g].exists /\ v.docs[g].members = <<>>

EmptyShownAtMostOnce ==
    [][\A c \in Clients, g \in GroupIds :
          (view'[c] # view[c] /\ ShowsEmpty(view[c], g) /\ ShowsEmpty(view'[c], g))
          => rejoined'[g]]_vars

\* C7: a joinGroup that finds its user already in members reports
\* already-member, issues no mutation and leaves members as it was, the user
\* appearing once.
RetryIsAlreadyMember ==
    [][\A c \in Clients :
          (/\ pc[c] = "join_get" /\ pc'[c] # "join_get"
           /\ result'[c] \notin RejectAlerts
           /\ IsMember(gid[c], Uid(c)))
          => /\ result'[c] = "already_member"
             /\ pc'[c] = "idle"
             /\ groups' = groups
             /\ Occurrences(groups'[gid[c]].members, Uid(c)) = 1]_vars

\* a client whose previous call joined the group has retried and been refused
RetriedAfterJoin ==
    \E c \in Clients :
        /\ Ran(c, "join", prevJoined[c])
        /\ result[c] = "already_member"
        /\ IsMember(gid[c], Uid(c))
        /\ Occurrences(groups[gid[c]].members, Uid(c)) = 1

\* C8: leaveGroup by a user who is not a member of the existing group reports
\* success, leaves members unchanged and does not delete the group.
NonMemberLeaveIsNoOp ==
    [][\A c \in Clients :
          (/\ op[c] = "leave" /\ pc'[c] # pc[c]
           /\ doc[c].exists /\ ~Includes(doc[c].members, Uid(c))
           /\ ~IsMember(gid[c], Uid(c))
           /\ result'[c] \notin CatchAlerts)
          => /\ groups'[gid[c]].exists = groups[gid[c]].exists
             /\ groups'[gid[c]].members = groups[gid[c]].members
             /\ pc'[c] = "idle" => result'[c] = "left"]_vars

\* C9: two joinGroup calls by different non-member users on a group with at
\* least two open slots both succeed and both users end up members.
TwoJoinersTwoSlots(a, b) ==
    /\ a # b /\ Uid(a) # Uid(b) /\ Uid(a) # NoUser /\ Uid(b) # NoUser
    /\ Len(members0) <= MaxSize - 2
    /\ ~Includes(members0, Uid(a)) /\ ~Includes(members0, Uid(b))
    /\ Ran(a, "join", 1) /\ Ran(b, "join", 1)

NoJoinLost ==
    \A a, b \in Pair :
        TwoJoinersTwoSlots(a, b) =>
            /\ result[a] = "joined" /\ result[b] = "joined"
            /\ IsMember(1, Uid(a)) /\ IsMember(1, Uid(b))

BothJoined ==
    \E a, b \in Pair :
        TwoJoinersTwoSlots(a, b) /\ IsMember(1, Uid(a)) /\ IsMember(1, Uid(b))

\* C10: a joinGroup by non-member A and a leaveGroup by member B of a group
\* with an open slot and another member who stays end, in every interleaving,
\* with members = original minus B plus A.
JoinerAndLeaver(a, b) ==
    /\ a # b /\ Uid(a) # Uid(b) /\ Uid(a) # NoUser /\ Uid(b) # NoUser
    /\ ~Includes(members0, Uid(a)) /\ Includes(members0, Uid(b))
    /\ Len(members0) < MaxSize
    /\ MemberSet(members0) \ {Uid(b)} # {}
    /\ Ran(a, "join", 1) /\ Ran(b, "leave", 1)

JoinLeaveCommute ==
    \A a, b \in Pair :
        JoinerAndLeaver(a, b) =>
            /\ groups[1].exists
            /\ MemberSet(groups[1].members)
                   = (MemberSet(members0) \ {Uid(b)}) \cup {Uid(a)}
            /\ result[a] = "joined" /\ result[b] = "left"

JoinedWhileOtherLeft ==
    \E a, b \in Pair :
        JoinerAndLeaver(a, b) /\ IsMember(1, Uid(a)) /\ ~IsMember(1, Uid(b))


\* String.prototype.trim: the name without leading and trailing blanks
Trim(name) ==
    LET solid == {i \in 1..Len(name) : name[i] # " "}
        first == CHOOSE i \in solid : \A j \in solid : i <= j
        last == CHOOSE i \in solid : \A j \in solid : j <= i
    IN IF solid = {} THEN <<>> ELSE SubSeq(name, first, last)

TrimmedLenOk(name) == Len(Trim(name)) >= MinNameLen /\ Len(Trim(name)) <= MaxNameLen

\* C11: createGroup issues no store write for a name whose trimmed length is
\* outside [2, 100]: no add() is pending or committed with such a name.
OnlyTrimmedNamesWritten ==
    /\ \A c \in Clients : pc[c] = "create_add" => TrimmedLenOk(newName[c])
    /\ \A g \in GroupIds : groups[g].exists => TrimmedLenOk(groups[g].name)


\* C12: a successful createGroup by user U adds exactly one new group, with
\* members = [U], createdBy = U and maxSize = 10, and changes no other group.
CreateAddsOneGroup ==
    [][\A c \in Clients :
          (pc[c] = "create_add" /\ result'[c] = "created")
          => \E g \in GroupIds :
                /\ ~groups[g].exists /\ groups'[g].exists
                /\ groups'[g].members = <<Uid(c)>>
                /\ groups'[g].createdBy = Uid(c)
                /\ groups'[g].maxSize = MaxSize
                /\ Includes(groups'[g].members, groups'[g].createdBy)
                /\ \A h \in GroupIds \ {g} : groups'[h] = groups[h]]_vars

\* a createGroup has just succeeded next to the pre-existing group
CreatedBesideExisting ==
    \E c \in Clients :
        /\ Done(c) /\ op[c] = "create" /\ result[c] = "created"
        /\ groups[gid[c]].exists /\ groups[gid[c]].members = <<Uid(c)>>
        /\ gid[c] # 1 /\ groups[1].exists


\* C13: with no authenticated user, createGroup, joinGroup and leaveGroup
\* report that authentication is required and never reach a store request (a
\* signed-out client is never at an await), and every change of a group comes
\* from the pending request of a signed-in client.
SignedOutTouchesNothing ==
    [][/\ \A c \in Clients :
             Uid(c) = NoUser
             => /\ pc[c] = "idle" /\ pc'[c] = "idle"
                /\ op'[c] # "none" => result'[c] = "auth_required"
       /\ groups' # groups
          => \E d \in Clients :
                Uid(d) # NoUser /\ pc[d] # "idle" /\ pc'[d] # pc[d]]_vars

\* a signed-out client asked to join a group that had room
SignedOutJoinRefused ==
    \E c \in Clients :
        /\ Uid(c) = NoUser /\ op[c] = "join" /\ result[c] = "auth_required"
        /\ groups[gid[c]].exists
        /\ Len(groups[gid[c]].members) < groups[gid[c]].maxSize


\* C14: a joinGroup or leaveGroup whose read or write finds the group absent
\* ends with "Group not found" and changes no document, also when the group
\* was deleted between the call's first read and its write.
MissingGroupIsNotFound ==
    [][\A c \in Clients :
          (/\ pc[c] \in {"join_get", "join_update", "leave_get", "leave_update"}
           /\ ~groups[gid[c]].exists
           /\ pc'[c] # pc[c]
           /\ result'[c] \notin RejectAlerts)
          => (result'[c] = "not_found" /\ groups' = groups)]_vars


\* C15: when leaveGroup ends in its catch block, the acting user's membership
\* of the stored group is what it was when the call began. Stated for a caller
\* who was a member at the call's read, whose user is signed in on no other
\* client, and with no other leaveGroup under way, so that only this call can
\* have removed the user.
FailedLeaveKeepsMembership ==
    [][\A c \in Clients :
          (/\ op[c] = "leave" /\ pc[c] # "idle" /\ pc'[c] = "idle"
           /\ result'[c] \in CatchAlerts
           /\ Includes(doc[c].members, Uid(c))
           /\ \A d \in Clients \ {c} : Uid(d) # Uid(c) /\ op[d] # "leave")
          => Includes(groups'[gid[c]].members, Uid(c))]_vars


\* C16: no path (page load, Refresh, auth-state change) attaches a group
\* listener or delivers group data to the list while no user is authenticated.
ListingNeedsUser ==
    [][\A c \in Clients :
          (page'[c].subs > page[c].subs \/ (view'[c] # view[c] /\ view'[c].delivered))
          => Uid(c) # NoUser]_vars


\* C17: a full group is never locked. A joinGroup of a non-member that reads
\* the group with |members| = maxSize ends with "group full" and changes
\* nothing; and once a member's leaveGroup on a full group has completed, the
\* joinGroup of a non-member passes its checks and commits, with the group
\* still within maxSize.
FullGroupReopens ==
    [][/\ \A c \in Pair :
             (/\ pc[c] = "join_get" /\ pc'[c] # pc[c]
              /\ result'[c] \notin RejectAlerts
              /\ groups[gid[c]].exists
              /\ Len(groups[gid[c]].members) = groups[gid[c]].maxSize
              /\ ~Includes(groups[gid[c]].members, Uid(c)))
             => (result'[c] = "group_full" /\ groups' = groups)
       /\ \A a, b \in Pair :
             (/\ Ran(a, "leave", 1) /\ result[a] = "left"
              /\ Len(members0) = MaxSize /\ Includes(members0, Uid(a))
              /\ Uid(b) # NoUser /\ ~Includes(members0, Uid(b))
              /\ op[b] = "join" /\ gid[b] = 1
              /\ pc'[b] # pc[b] /\ result'[b] \notin RejectAlerts)
             => /\ pc[b] = "join_get" => pc'[b] = "join_update"
                /\ pc[b] = "join_update"
                   => /\ result'[b] = "joined"
                      /\ Includes(groups'[1].members, Uid(b))
                      /\ Len(groups'[1].members) <= MaxSize]_vars

\* a member left the full group and a non-member then joined it
JoinedAfterLeaveFromFull ==
    \E a, b \in Pair :
        /\ Ran(a, "leave", 1) /\ result[a] = "left"
        /\ Len(members0) = MaxSize /\ Includes(members0, Uid(a))
        /\ Ran(b, "join", 1) /\ result[b] = "joined"
        /\ ~Includes(members0, Uid(b)) /\ IsMember(1, Uid(b))
        /\ Len(groups[1].members) = MaxSize


\* C18: joinGroup and leaveGroup change nothing but members of their target:
\* a group that exists before and after a step keeps its name, createdBy,
\* createdAt and maxSize, and a step of a joinGroup or leaveGroup leaves every
\* other group as it was.
OnlyMembersOfTargetChange ==
    [][/\ \A g \in GroupIds :
             (groups[g].exists /\ groups'[g].exists)
             => /\ groups'[g].name = groups[g].name
                /\ groups'[g].createdBy = groups[g].createdBy
                /\ groups'[g].createdAt = groups[g].createdAt
                /\ groups'[g].maxSize = groups[g].maxSize
       /\ \A c \in Clients :
             (op[c] \in {"join", "leave"} /\ pc[c] # "idle" /\ pc'[c] # pc[c])
             => \A h \in GroupIds \ {gid[c]} : groups'[h] = groups[h]]_vars

\* a join has changed the members of the pre-existing group, next to another
\* group, and the group's other fields are those it was created with
JoinedKeepsFields ==
    \E c \in Clients :
        /\ Ran(c, "join", 1) /\ result[c] = "joined"
        /\ groups[1].members = Append(members0, Uid(c))
        /\ groups[1] = [SeedDoc(members0) EXCEPT !.members = groups[1].members]
        /\ \E h \in GroupIds \ {1} : groups[h].exists


\* C19: the text shown when a store request of createGroup, joinGroup or
\* leaveGroup is rejected does not depend on the backend's error message: any
\* two calls of the same handler that ended on a rejected request show the
\* same alert.
RejectionAlertIsGeneric ==
    \A a, b \in Clients :
        (/\ Done(a) /\ Done(b) /\ op[a] = op[b]
         /\ result[a] \in RejectAlerts /\ result[b] \in RejectAlerts)
        => result[a] = result[b]

\* position of member x in the list
Pos(members, x) == CHOOSE i \in 1..Len(members) : members[i] = x

\* C20: members lists the current members in the order of their joins: the
\* committed write of a joinGroup puts the acting user after all the members
\* there were, and the committed write of a leaveGroup takes out the acting
\* user alone and keeps the others in their order.
MembersInJoinOrder ==
    [][\A c \in Pair :
          LET old == groups[gid[c]].members
              new == groups'[gid[c]].members
          IN /\ (/\ pc[c] = "join_update" /\ result'[c] = "joined"
                 /\ ~Includes(old, Uid(c)))
                => /\ Len(new) = Len(old) + 1
                   /\ new[Len(new)] = Uid(c)
                   /\ \A i \in 1..Len(old) : new[i] = old[i]
             /\ (pc[c] = "leave_update" /\ pc'[c] = "leave_reread")
                => /\ MemberSet(new) = MemberSet(old) \ {Uid(c)}
                   /\ Len(new) = Cardinality(MemberSet(new))
                   /\ \A x, y \in MemberSet(new) :
                         Pos(new, x) < Pos(new, y) <=> Pos(old, x) < Pos(old, y)]_vars

\* the first member left and a new one joined: the others moved up in their
\* order and the joiner is last
FirstLeftNewcomerLast ==
    \E a, b \in Pair :
        /\ Ran(a, "leave", 1) /\ result[a] = "left"
        /\ Ran(b, "join", 1) /\ result[b] = "joined"
        /\ Len(members0) >= 3 /\ members0[1] = Uid(a)
        /\ groups[1].members = Append(Tail(members0), Uid(b))


\* C21: a group document is deleted only by a request of the user recorded as
\* its createdBy: every step that removes a group is the delete() of a
\* leaveGroup called by the group's creator.
OnlyCreatorDeletes ==
    [][\A g \in GroupIds :
          (groups[g].exists /\ ~groups'[g].exists)
          => \E c \in Clients :
                /\ pc[c] = "leave_delete" /\ pc'[c] # pc[c] /\ gid[c] = g
                /\ Uid(c) = groups[g].createdBy]_vars


\* C22: the rendered list shows the member count and no member identifiers:
\* two delivered groups with the same name and maxSize, member lists of equal
\* size, and the same answer to whether the viewer is a member, are rendered
\* alike.
RowShowsOnlyCount ==
    \A a, b \in Clients : \A g, h \in GroupIds :
        LET d == view[a].docs[g]
            e == view[b].docs[h]
        IN (/\ view[a].delivered /\ view[b].delivered
            /\ d.exists /\ e.exists
            /\ d.name = e.name /\ d.maxSize = e.maxSize
            /\ Len(d.members) = Len(e.members)
            /\ Includes(d.members, Uid(a)) <=> Includes(e.members, Uid(b)))
           => RenderRow(d, Uid(a)) = RenderRow(e, Uid(b))


EveryCallReports ==
    \A c \in Clients : (pc[c] # "idle") ~> (pc[c] = "idle")


\* figures the stopwatch may show: an object with numeric total and sessions,
\* neither negative
ValidFigures(d) ==
    /\ d.k = "object"
    /\ Get(d, "total").k = "num" /\ Get(d, "total").n >= 0
    /\ Get(d, "sessions").k = "num" /\ Get(d, "sessions").n >= 0

\* a history entry the stopwatch may show
ValidEntry(e) ==
    /\ e.k = "object"
    /\ Get(e, "duration").k = "num" /\ Get(e, "duration").n >= MinSession
    /\ Get(e, "timestamp").k = "num"

Reloaded(version, st) ==
    IF version = "plain"
    THEN [todayData |-> LoadPlain(st.today, ZeroData),
          allTimeData |-> LoadPlain(st.alltime, ZeroData),
          sessions |-> LoadPlain(st.sessions, JArr(<<>>))]
    ELSE [todayData |-> LoadDataValidated(st.today),
          allTimeData |-> LoadDataValidated(st.alltime),
          sessions |-> LoadSessionsValidated(st.sessions)]

\* C24: after a saveSession or clearAll, a reload of the page on the same day
\* reads back the figures of today, the all-time figures and the session list
\* that the page holds in memory.
ReloadRestores ==
    (/\ watch.phase = "open" /\ watch.last \in {"saveSession", "clearAll"}
     /\ storage.lastdate = PlainText(DateText(clock.day)))
    => Reloaded(watch.version, storage) =
          [todayData |-> watch.todayData, allTimeData |-> watch.allTimeData,
           sessions |-> watch.sessions]


\* C27: the figures of today count the sessions saved on the current calendar
\* day and nothing else, whatever ticks, saves and day changes came before.
TodayCountsToday ==
    watch.phase = "open"
    => watch.todayData = JData(JNum(tally[clock.day].total),
                               JNum(tally[clock.day].sessions))


\* a step of saveSession: the only handler that leaves its name in last
\* and the clock alone
SaveSessionStep == watch.phase = "open" /\ watch'.last = "saveSession" /\ clock' = clock

\* C28: saveSession with elapsed below 1000 ms changes neither the session
\* list, the figures, the storage, elapsed nor the running flag, and leaves a
\* running timer running.
ShortSaveChangesNothing ==
    [][(SaveSessionStep /\ watch.elapsed < MinSession)
       => /\ watch' = [watch EXCEPT !.last = "saveSession"]
          /\ storage' = storage]_vars

\* a save refused while the timer runs, half a period or more after its start
ShortSaveWhileRunning ==
    /\ watch.phase = "open" /\ watch.last = "saveSession"
    /\ watch.running /\ watch.intervals > 0 /\ watch.elapsed < MinSession
    /\ clock.now > watch.startTime
    /\ watch.sessions = JArr(<<>>)


\* C29: a saveSession that records puts the new session first, keeps the
\* earlier ones behind it in their order and drops what lies beyond 20; the
\* history never holds more than 20 sessions.
HistoryNewestFirst ==
    /\ [](watch.phase = "open" => Len(watch.sessions.items) <= MaxHistory)
    /\ [][(SaveSessionStep /\ watch.elapsed >= MinSession)
          => LET old == watch.sessions.items
                 new == watch'.sessions.items
             IN /\ new[1] = NewSession(watch.elapsed, clock.now, clock.day, clock.wide)
                /\ Len(new) = IF Len(old) < MaxHistory THEN Len(old) + 1 ELSE MaxHistory
                /\ \A i \in 2..Len(new) : new[i] = old[i - 1]]_vars

\* a session saved onto a full history: the oldest of the 20 is gone
OldestDropped ==
    /\ watch.phase = "open" /\ watch.last = "saveSession"
    /\ tally[0].sessions = MaxHistory
    /\ Len(watch.sessions.items) = MaxHistory
    /\ watch.sessions.items[1].timestamp.n > 0
    /\ watch.sessions.items[MaxHistory] = OldSession(MaxHistory - 1)


\* the stored users list
StoredUsers(st) == IF st.users.t = "json" THEN st.users.v.items ELSE <<>>

\* the user named by the form is stored with another password than the form's
FormHasWrongPassword ==
    LET i == FindUser(StoredUsers(storage), login.form.username)
    IN i > 0 /\ StoredUsers(storage)[i].password # JStr(login.form.password)

\* C30: submitting a known username with a password other than the stored
\* one leaves sessionStorage.currentUser, the page and the users list as they
\* were and shows "Wrong password"; no step changes a stored user's password.
WrongPasswordRefused ==
    /\ [][(/\ login.location = "login" /\ login'.form = login.form
           /\ FormHasWrongPassword)
          => /\ login'.currentUser = login.currentUser
             /\ login'.location = "login"
             /\ login'.alert = "wrong_password"
             /\ storage'.users = storage.users]_vars
    /\ [][\A i \in 1..Len(StoredUsers(storage)) :
             /\ Len(StoredUsers(storage')) >= i
             /\ StoredUsers(storage')[i] = StoredUsers(storage)[i]]_vars

\* "Wrong password" shown to a visitor who is not logged in
WrongPasswordShown ==
    /\ login.location = "login" /\ login.alert = "wrong_password"
    /\ FormHasWrongPassword
    /\ login.currentUser = JUndef


\* C31: a page has at most one live listener on the group collection,
\* however often showGroups has run.
AtMostOneSubscription ==
    \A c \in Clients : page[c].subs <= 1


\* C32: the stopwatch runs exactly when one interval timer is scheduled:
\* never two timers, never a timer while stopped, never running without one.
RunningIffOneInterval ==
    /\ watch.intervals <= 1
    /\ watch.running <=> watch.intervals = 1

\* resumed after a pause: started again with measured time on the clock
ResumedWithOneInterval ==
    /\ watch.phase = "open" /\ watch.last = "toggle"
    /\ watch.running /\ watch.intervals = 1
    /\ watch.elapsed >= MinSession


\* a step of toggle or updateTimer on the open page
TimerStep ==
    /\ watch.phase = "open" /\ watch'.phase = "open"
    /\ watch'.last \in {"toggle", "tick"} /\ clock' = clock

\* C33: across toggle calls and ticks elapsed never decreases, it stays as it
\* is while the stopwatch is stopped, and a resume sets the start of counting
\* so that the count at that moment is the elapsed value held at the pause.
PauseKeepsElapsed ==
    [][TimerStep
       => /\ watch'.elapsed >= watch.elapsed
          /\ ~watch.running => watch'.elapsed = watch.elapsed
          /\ (~watch.running /\ watch'.running)
             => clock.now - watch'.startTime = watch.elapsed]_vars

\* resumed after a pause that lasted a while: counting starts again at the
\* elapsed value held, short of the time since the first start
ResumedAfterPause ==
    /\ watch.phase = "open" /\ watch.last = "toggle" /\ watch.running
    /\ watch.elapsed >= MinSession
    /\ watch.startTime > 0
    /\ clock.now - watch.startTime = watch.elapsed


\* C34: saveSession changes the history, today's figures and the all-time
\* figures together or not at all: no call records the session or counts it
\* for today without counting it in the all-time figures.
SaveIsAllOrNothing ==
    [][SaveSessionStep
       => LET listed == watch'.sessions # watch.sessions
              today == watch'.todayData # watch.todayData
              allTime == watch'.allTimeData # watch.allTimeData
          IN /\ (listed \/ today) => allTime
             /\ allTime => (listed /\ today)]_vars

\* the validating version has recorded a session of this page: it heads the
\* history and is counted in both figures
RecordedEverywhere ==
    /\ watch.version = "validated" /\ watch.phase = "open"
    /\ watch.last = "saveSession"
    /\ Len(watch.sessions.items) >= 1
    /\ watch.sessions.items[1].timestamp.n > 0
    /\ watch.todayData.total.n >= watch.sessions.items[1].duration.n
    /\ watch.allTimeData.total.n >= watch.sessions.items[1].duration.n
    /\ watch.elapsed = 0 /\ ~watch.running


\* the sessions recorded on days 0..d since the last clearAll
RECURSIVE RecordedUpTo(_)
RecordedUpTo(d) == tally[d].sessions + (IF d = 0 THEN 0 ELSE RecordedUpTo(d - 1))

\* C35: today's figures never exceed the all-time figures, and the all-time
\* session count is the number of sessions recorded since the last clearAll.
TodayWithinAllTime ==
    watch.phase = "open"
    => /\ watch.todayData.total.n <= watch.allTimeData.total.n
       /\ watch.todayData.sessions.n <= watch.allTimeData.sessions.n
       /\ watch.allTimeData.sessions.n = RecordedUpTo(MaxDays)

\* from empty storage: a session on each of two days with a reload after
\* midnight, so that today counts one session and all time two
TodayBelowAllTime ==
    /\ watch.phase = "open" /\ clock.day = 2
    /\ tally[0].sessions = 0 /\ tally[1].sessions = 1 /\ tally[2].sessions = 1
    /\ watch.todayData.sessions.n = 1
    /\ watch.allTimeData.sessions.n = 2
    /\ watch.todayData.total.n < watch.allTimeData.total.n


\* C36: in the localStorage version no two stored groups have the same id.
LocalIdsUnique ==
    storage.groups.t = "json"
    => \A i, j \in 1..Len(LocalGroups) :
          i # j => LocalGroups[i].id # LocalGroups[j].id

====
